---- MODULE Spec2Model ----
(***************************************************************************)
(* The server-node editor of ppanel-web (ServerForm, src/unnamed/part_000). *)
(* State: the component's React state (open, protocolsEnabled), its props  *)
(* (initialValues, loading), the react-hook-form store (current values and *)
(* default values) and the onSubmit calls handed to the parent.            *)
(*                                                                         *)
(* activeType (line 68) only selects which tab is shown; every tab is one   *)
(* click away and no handler reads it, so the handlers of all tabs are     *)
(* offered in every open state.  form-schema (PROTOCOLS, the default       *)
(* factory, formSchema) is imported by the component and not part of the   *)
(* sources at hand: the catalog, the defaults and the validator's rules    *)
(* follow the written specification.  The resolver is handed the form      *)
(* values and not the enabled list the written rules depend on, so its     *)
(* verdict at confirm is left open.                                        *)
(*                                                                         *)
(* JavaScript values that pass through Number(), `||` or `&&` are kept as  *)
(* tagged values [t, v, s]: t is the type tag, v a number in tenths (so    *)
(* 1.5 is 15 and 8388 is 83880), s the characters of a string.             *)
(***************************************************************************)
EXTENDS Integers, Sequences, FiniteSets, TLC

VARIABLES
  initialValues,     \* props.initialValues (NoInitial when the prop is absent)
  loading,           \* props.loading
  open,              \* useState(false)
  protocolsEnabled,  \* useState<string[]>([])
  formValues,        \* react-hook-form: the current values
  formDefaults,      \* react-hook-form: the default values reset() returns to
  pending,           \* the onSubmit calls not yet resolved
  everCalled,        \* onSubmit has been called since the component mounted
  lastOp,            \* the handler that ran last and what it put out
  nEdits,            \* field edits made so far
  nToggles           \* switch toggles made so far

vars == <<initialValues, loading, open, protocolsEnabled, formValues, formDefaults,
          pending, everCalled, lastOp, nEdits, nToggles>>

\* ------------------------------------------------------------------ bounds
MaxEdits == 1
MaxToggles == 2
MaxInFlight == 2

\* --------------------------------------------------------------- JS values
JNull == [t |-> "null", v |-> 0, s |-> <<>>]
JUndefined == [t |-> "undefined", v |-> 0, s |-> <<>>]
JNaN == [t |-> "nan", v |-> 0, s |-> <<>>]
JNum(tenths) == [t |-> "number", v |-> tenths, s |-> <<>>]
JInt(n) == JNum(n * 10)
JStr(chars) == [t |-> "string", v |-> 0, s |-> chars]

Digits == {"0", "1", "2", "3", "4", "5", "6", "7", "8", "9"}

DigitVal(c) ==
  CASE c = "0" -> 0 [] c = "1" -> 1 [] c = "2" -> 2 [] c = "3" -> 3 [] c = "4" -> 4
    [] c = "5" -> 5 [] c = "6" -> 6 [] c = "7" -> 7 [] c = "8" -> 8 [] c = "9" -> 9

RECURSIVE DigitsValue(_)
DigitsValue(ds) ==
  IF ds = <<>> THEN 0
  ELSE DigitsValue(SubSeq(ds, 1, Len(ds) - 1)) * 10 + DigitVal(ds[Len(ds)])

AllDigits(ds) == \A k \in 1..Len(ds) : ds[k] \in Digits

RECURSIVE TrimLeft(_)
TrimLeft(cs) == IF cs # <<>> /\ cs[1] = " " THEN TrimLeft(Tail(cs)) ELSE cs

RECURSIVE TrimRight(_)
TrimRight(cs) ==
  IF cs # <<>> /\ cs[Len(cs)] = " " THEN TrimRight(SubSeq(cs, 1, Len(cs) - 1)) ELSE cs

\* The position of the first "." of cs, or 0.
DotAt(cs) ==
  IF \E k \in 1..Len(cs) : cs[k] = "."
  THEN CHOOSE k \in 1..Len(cs) : cs[k] = "." /\ \A j \in 1..(k - 1) : cs[j] # "."
  ELSE 0

\* Number(string): StringToNumber on decimal literals with at most one fraction
\* digit (the inputs of this model carry no more): surrounding blanks are
\* dropped, the empty string is 0, anything that is not [+-]digits[.digit] is NaN.
StringToNumber(chars) ==
  LET t == TrimRight(TrimLeft(chars)) IN
  IF t = <<>> THEN JNum(0)
  ELSE
    LET signed == t[1] \in {"-", "+"}
        body == IF signed THEN Tail(t) ELSE t
        dot == DotAt(body)
        whole == IF dot = 0 THEN body ELSE SubSeq(body, 1, dot - 1)
        frac == IF dot = 0 THEN <<>> ELSE SubSeq(body, dot + 1, Len(body))
        mag == DigitsValue(whole) * 10 + (IF frac = <<>> THEN 0 ELSE DigitVal(frac[1]))
    IN IF AllDigits(whole) /\ AllDigits(frac) /\ Len(whole) + Len(frac) > 0 /\ Len(frac) <= 1
       THEN JNum(IF t[1] = "-" THEN 0 - mag ELSE mag)
       ELSE JNaN

\* Number(x)
ToNumber(x) ==
  CASE x.t = "null" -> JNum(0)
    [] x.t = "undefined" -> JNaN
    [] x.t = "number" -> x
    [] x.t = "nan" -> x
    [] x.t = "string" -> StringToNumber(x.s)

\* ToBoolean(x), as `||` and `&&` apply it
Truthy(x) ==
  CASE x.t = "null" -> FALSE
    [] x.t = "undefined" -> FALSE
    [] x.t = "nan" -> FALSE
    [] x.t = "number" -> x.v # 0
    [] x.t = "string" -> x.s # <<>>

\* Number.isFinite(x) for the numbers of this model (no infinities)
IsFinite(x) == x.t = "number"

\* { ...a, ...b }
Spread(a, b) == [k \in DOMAIN a \cup DOMAIN b |-> IF k \in DOMAIN b THEN b[k] ELSE a[k]]

\* obj.key, undefined when the object has no such key
Get(obj, key) == IF key \in DOMAIN obj THEN obj[key] ELSE JUndefined

\* ----------------------------------------------------------------- catalog
PROTOCOLS == <<"shadowsocks", "vless", "vmess", "trojan", "tuic", "hysteria2", "anytls">>

MaxPort == 65535

Range(seq) == {seq[k] : k \in 1..Len(seq)}

\* The protocol kinds with a transport card and a security select (lines 574, 682).
TransportKinds == {"vmess", "vless", "trojan"}

\* The transports whose card shows HOST and path (line 613).
HostPathTransports == {"websocket", "http2", "httpupgrade"}

\* The ciphers that show the server_key input (lines 351-355).
Blake3Ciphers ==
  {"2022-blake3-aes-128-gcm", "2022-blake3-aes-256-gcm", "2022-blake3-chacha20-poly1305"}

RealityFields ==
  {"reality_server_addr", "reality_server_port", "reality_private_key",
   "reality_public_key", "reality_short_id"}

\* getProtocolDefaultConfig(type): every field with a documented default, the
\* port blank, the mode-dependent fields (host, path, service_name, reality_*,
\* server_key) absent while their mode is off.
GetProtocolDefaultConfig(type) ==
  CASE type = "shadowsocks" ->
         [type |-> type, port |-> JNull, cipher |-> "chacha20-ietf-poly1305"]
    [] type = "vless" ->
         [type |-> type, port |-> JNull, flow |-> "none", transport |-> "tcp",
          security |-> "none", fingerprint |-> "chrome"]
    [] type = "vmess" ->
         [type |-> type, port |-> JNull, transport |-> "tcp", security |-> "none",
          fingerprint |-> "chrome"]
    [] type = "trojan" ->
         [type |-> type, port |-> JNull, transport |-> "tcp", security |-> "tls",
          fingerprint |-> "chrome"]
    [] type = "tuic" ->
         [type |-> type, port |-> JNull, udp_relay_mode |-> "native",
          congestion_controller |-> "bbr", disable_sni |-> FALSE, reduce_rtt |-> FALSE,
          fingerprint |-> "chrome"]
    [] type = "hysteria2" ->
         [type |-> type, port |-> JNull, obfs_password |-> "", hop_ports |-> "",
          fingerprint |-> "chrome"]
    [] type = "anytls" ->
         [type |-> type, port |-> JNull, fingerprint |-> "chrome"]

\* ------------------------------------------------------------------ inputs
\* The prop is absent (create mode).
NoInitial == [absent |-> TRUE]

HasInitial(iv) == "absent" \notin DOMAIN iv

\* Existing nodes the parent may pass as initialValues. NodeA lists its
\* protocols out of catalog order; NodeB holds a protocol with fields missing
\* and one whose stored port is out of range; NodeC has no protocols key.
NodeA ==
  [name |-> "n1", address |-> "a1", country |-> "c1", city |-> "", ratio |-> JInt(2),
   protocols |->
     << [type |-> "vless", port |-> JInt(443), flow |-> "none", transport |-> "websocket",
         host |-> "h", path |-> "p", security |-> "reality", fingerprint |-> "chrome",
         reality_server_addr |-> "r", reality_server_port |-> "r",
         reality_private_key |-> "r", reality_public_key |-> "r",
         reality_short_id |-> "r"],
        [type |-> "shadowsocks", port |-> JInt(8388),
         cipher |-> "2022-blake3-aes-128-gcm", server_key |-> "k"] >>]

NodeB ==
  [name |-> "n2", address |-> "a2", ratio |-> JNum(5),
   protocols |->
     << [type |-> "vmess", port |-> JStr(<<"8", "0">>)],
        [type |-> "hysteria2", port |-> JInt(70000), obfs_password |-> "",
         hop_ports |-> "", fingerprint |-> "chrome"] >>]

NodeC == [name |-> "n3", address |-> "a3"]

InitialNodes == {NodeA, NodeB, NodeC}

\* What the operator may leave in a port input.
PortInputs ==
  { JStr(<<>>), JStr(<<"0">>), JStr(<<"-", "1">>), JStr(<<"1", ".", "5">>),
    JStr(<<"4", "4", "3">>), JStr(<<"6", "5", "5", "3", "5">>),
    JStr(<<"6", "5", "5", "3", "6">>), JStr(<<"a", "b">>) }

RatioInputs == { JStr(<<>>), JStr(<<"0", ".", "5">>), JInt(0) }

TextInputs == {"", "x"}

\* The top-level text inputs the operator edits here; address, country and city
\* are written by the same field.onChange as name.
TopTextFields == {"name"}

\* The options of a select, per kind.
TransportOptions(type) == {"tcp", "websocket", "grpc"}

SecurityOptions(type) == IF type = "vless" THEN {"none", "tls", "reality"} ELSE {"none", "tls"}

CipherOptions ==
  {"chacha20-ietf-poly1305", "2022-blake3-aes-128-gcm", "2022-blake3-aes-256-gcm",
   "2022-blake3-chacha20-poly1305"}

\* ------------------------------------------------------- react-hook-form
\* The literal every reset and useForm starts from (lines 74-79, 95-99, 154-158).
BlankTop == [name |-> "", address |-> "", country |-> "", city |-> "", ratio |-> JInt(1)]

\* useForm({ defaultValues: { ..., protocols: [], ...initialValues } })
UseFormDefaults(iv) ==
  LET base == Spread(BlankTop, [protocols |-> <<>>])
  IN IF HasInitial(iv) THEN Spread(base, iv) ELSE base

\* initialValues.protocols?.find((p) => p.type === type): the matches, first first
FindProtocol(iv, type) ==
  IF "protocols" \in DOMAIN iv
  THEN SelectSeq(iv.protocols, LAMBDA p : p.type = type)
  ELSE <<>>

\* PROTOCOLS.filter(...) of the effect (lines 89-92)
EnabledOnLoad(iv) ==
  SelectSeq(PROTOCOLS,
            LAMBDA type :
              LET found == FindProtocol(iv, type) IN
              /\ found # <<>>
              /\ Truthy(Get(Head(found), "port"))
              /\ LET n == ToNumber(Get(Head(found), "port")) IN n.t = "number" /\ n.v > 0)

\* A load that spreads the factory's config over the stored protocol instead
\* of keeping the stored one.
LoadedValues_DefaultsWin(iv) ==
  Spread(Spread(BlankTop, iv),
         [protocols |->
            [k \in 1..Len(PROTOCOLS) |->
               LET found == FindProtocol(iv, PROTOCOLS[k]) IN
               IF found # <<>>
               THEN Spread(Head(found), GetProtocolDefaultConfig(PROTOCOLS[k]))
               ELSE GetProtocolDefaultConfig(PROTOCOLS[k])]])

\* A load that takes the stored protocols by their position in the node.
LoadedValues_ByPosition(iv) ==
  Spread(Spread(BlankTop, iv),
         [protocols |->
            [k \in 1..Len(PROTOCOLS) |->
               IF "protocols" \in DOMAIN iv /\ k <= Len(iv.protocols)
               THEN iv.protocols[k]
               ELSE GetProtocolDefaultConfig(PROTOCOLS[k])]])

\* The values the effect resets the form to (lines 94-105)
LoadedValues(iv) ==
  Spread(Spread(BlankTop, iv),
         [protocols |->
            [k \in 1..Len(PROTOCOLS) |->
               LET found == FindProtocol(iv, PROTOCOLS[k]) IN
               IF found # <<>> THEN Head(found) ELSE GetProtocolDefaultConfig(PROTOCOLS[k])]])

\* The values the trigger button resets the form to in create mode (lines 152-160)
CreateValues ==
  Spread(BlankTop,
         [protocols |-> [k \in 1..Len(PROTOCOLS) |-> GetProtocolDefaultConfig(PROTOCOLS[k])]])

\* ------------------------------------------------------------ handleSubmit
\* The catalog position of a protocol kind.
CatalogIndex(type) == CHOOSE i \in 1..Len(PROTOCOLS) : PROTOCOLS[i] = type

\* A reducer that walks the enabled list instead of the form's slots: the kept
\* entries come out in the order the switches were turned on.
KeptIndices_InToggleOrder(values, enabled) ==
  LET ps == IF "protocols" \in DOMAIN values THEN values.protocols ELSE <<>>
  IN SelectSeq([k \in 1..Len(enabled) |-> CatalogIndex(enabled[k])],
               LAMBDA index :
                 LET port == ToNumber(Get(ps[index], "port")) IN
                 /\ index <= Len(ps)
                 /\ IsFinite(port)
                 /\ port.v > 0
                 /\ port.v <= MaxPort * 10)

\* The indices of values.protocols the filter keeps (lines 111-122); the code's
\* index is 0-based, PROTOCOLS[index] is undefined past the catalog.
KeptIndices(values, enabled) ==
  LET ps == IF "protocols" \in DOMAIN values THEN values.protocols ELSE <<>>
  IN SelectSeq([k \in 1..Len(ps) |-> k],
               LAMBDA index :
                 LET port == ToNumber(Get(ps[index], "port")) IN
                 /\ index <= Len(PROTOCOLS)
                 /\ PROTOCOLS[index] \in Range(enabled)
                 /\ IsFinite(port)
                 /\ port.v > 0
                 /\ port.v <= MaxPort * 10)

\* A map that rebuilds the entry from its type and port alone.
MapEntry_TypeAndPort(p) == [type |-> p.type, port |-> ToNumber(Get(p, "port"))]

\* .map((p) => ({ ...p, port: Number(p.port) })) (line 123)
MapEntry(p) == Spread(p, [port |-> ToNumber(Get(p, "port"))])

\* filtered (lines 111-123)
Filtered(values, enabled) ==
  LET kept == KeptIndices(values, enabled)
  IN [k \in 1..Len(kept) |-> MapEntry(values.protocols[kept[k]])]

\* result (lines 130-137)
SubmitResult(values, enabled) ==
  [name |-> values.name,
   country |-> values.country,
   city |-> values.city,
   ratio |-> ToNumber(IF Truthy(values.ratio) THEN values.ratio ELSE JInt(1)),
   address |-> values.address,
   protocols |-> Filtered(values, enabled)]

\* ------------------------------------------------------------------ state
\* No submission was handed to onSubmit.
NoResult == [none |-> TRUE]

\* What a handler put out: the toast.error calls it made, the submission it
\* handed to onSubmit (called, result); type is the tab it belongs to, valid the
\* resolver's verdict, ok the value onSubmit resolved with.
Op(op) ==
  [op |-> op, type |-> "", valid |-> FALSE, called |-> FALSE, toasts |-> 0, ok |-> FALSE,
   result |-> NoResult]

\* The state after the first render and its effect (lines 67-108).
Init ==
  /\ initialValues \in {NoInitial} \cup InitialNodes
  /\ loading = FALSE
  /\ open = FALSE
  /\ protocolsEnabled = IF HasInitial(initialValues) THEN EnabledOnLoad(initialValues) ELSE <<>>
  /\ formValues = IF HasInitial(initialValues) THEN LoadedValues(initialValues)
                  ELSE UseFormDefaults(initialValues)
  /\ formDefaults = formValues
  /\ pending = 0
  /\ everCalled = FALSE
  /\ lastOp = Op("none")
  /\ nEdits = 0
  /\ nToggles = 0

\* useEffect(..., [initialValues]) on a new initialValues object (lines 87-108)
NewInitialValues ==
  /\ HasInitial(initialValues)
  /\ \E iv \in InitialNodes :
       /\ initialValues' = iv
       /\ protocolsEnabled' = EnabledOnLoad(iv)
       /\ formValues' = LoadedValues(iv)
       /\ formDefaults' = LoadedValues(iv)
  /\ lastOp' = Op("none")
  /\ UNCHANGED <<loading, open, pending, everCalled, nEdits, nToggles>>

\* The parent changes props.loading.
ParentSetsLoading ==
  /\ loading' = ~loading
  /\ UNCHANGED <<lastOp, initialValues, open, protocolsEnabled, formValues, formDefaults,
                 pending, everCalled, nEdits, nToggles>>

\* A trigger that opens the sheet and resets nothing.
ClickTrigger_NoReset ==
  /\ ~open
  /\ open' = TRUE
  /\ lastOp' = Op("trigger")
  /\ UNCHANGED <<initialValues, loading, protocolsEnabled, formValues, formDefaults,
                 pending, everCalled, nEdits, nToggles>>

\* The trigger button's onClick (lines 150-164); the sheet is modal, so the
\* trigger is reached only while it is closed.
ClickTrigger ==
  /\ ~open
  /\ IF ~HasInitial(initialValues)
     THEN /\ formValues' = CreateValues
          /\ formDefaults' = CreateValues
          /\ protocolsEnabled' = <<>>
     ELSE UNCHANGED <<formValues, formDefaults, protocolsEnabled>>
  /\ open' = TRUE
  /\ lastOp' = Op("trigger")
  /\ UNCHANGED <<initialValues, loading, pending, everCalled, nEdits, nToggles>>

\* The cancel button (lines 904-906)
Cancel ==
  /\ open
  /\ ~loading
  /\ open' = FALSE
  /\ lastOp' = Op("close")
  /\ UNCHANGED <<initialValues, loading, protocolsEnabled, formValues, formDefaults,
                 pending, everCalled, nEdits, nToggles>>

\* Sheet onOpenChange(false): overlay click, Escape, the close button (line 147)
Dismiss ==
  /\ open
  /\ open' = FALSE
  /\ lastOp' = Op("close")
  /\ UNCHANGED <<initialValues, loading, protocolsEnabled, formValues, formDefaults,
                 pending, everCalled, nEdits, nToggles>>

\* The new enabled list of Switch onCheckedChange (lines 283-289)
Toggled(enabled, type, checked) ==
  IF checked THEN Append(enabled, type) ELSE SelectSeq(enabled, LAMBDA p : p # type)

\* Two calls that each add to what the other wrote.
ToggledTwice_Accumulating(enabled, type, checked) ==
  Toggled(Toggled(enabled, type, checked), type, checked)

\* The enabled list after the switch called onCheckedChange twice within one
\* render: both calls read the protocolsEnabled of that render and the second
\* setProtocolsEnabled replaces what the first wrote (lines 283-289).
ToggledTwice(enabled, type, checked) == Toggled(enabled, type, checked)

\* A switch that clears the slot it turns off.
ValuesAfterToggle_ClearingSlot(values, type, checked) ==
  IF checked THEN values
  ELSE [values EXCEPT !.protocols[CatalogIndex(type)] = GetProtocolDefaultConfig(type)]

\* The form values after the switch of `type` was flipped: untouched.
ValuesAfterToggle(values, type, checked) == values

\* Switch onCheckedChange of a protocol tab (lines 281-290); the switch reports
\* the opposite of its checked prop (line 282).
Toggle(type) ==
  /\ open
  /\ nToggles < MaxToggles
  /\ LET checked == type \notin Range(protocolsEnabled) IN
     /\ protocolsEnabled' = Toggled(protocolsEnabled, type, checked)
     /\ formValues' = ValuesAfterToggle(formValues, type, checked)
  /\ nToggles' = nToggles + 1
  /\ lastOp' = [Op("toggle") EXCEPT !.type = type]
  /\ UNCHANGED <<initialValues, loading, open, formDefaults, pending,
                 everCalled, nEdits>>

\* Switch onCheckedChange called twice before the component renders again.
ToggleSameRender(type) ==
  /\ open
  /\ nToggles + 2 <= MaxToggles
  /\ LET checked == type \notin Range(protocolsEnabled) IN
     /\ protocolsEnabled' = ToggledTwice(protocolsEnabled, type, checked)
     /\ formValues' = ValuesAfterToggle(formValues, type, checked)
  /\ nToggles' = nToggles + 2
  /\ lastOp' = [Op("toggleTwice") EXCEPT !.type = type]
  /\ UNCHANGED <<initialValues, loading, open, formDefaults, pending,
                 everCalled, nEdits>>

\* The inputs the tab of slot i renders (lines 293-894): none unless the
\* protocol is enabled, the dependent ones only under their selector's value.
VisibleFields(values, enabled, i) ==
  LET type == PROTOCOLS[i]
      current == values.protocols[i]
      transport == IF "transport" \in DOMAIN current THEN current.transport ELSE "tcp"
      security == IF "security" \in DOMAIN current THEN current.security ELSE ""
      cipher == IF "cipher" \in DOMAIN current THEN current.cipher ELSE ""
  IN IF type \notin Range(enabled) THEN {}
     ELSE {"port"}
          \cup (IF type = "shadowsocks" THEN {"cipher"} ELSE {})
          \cup (IF type = "shadowsocks" /\ cipher \in Blake3Ciphers THEN {"server_key"} ELSE {})
          \cup (IF type \in TransportKinds THEN {"transport", "security"} ELSE {})
          \cup (IF type \in TransportKinds /\ transport \in HostPathTransports
                THEN {"host", "path"} ELSE {})
          \cup (IF type \in TransportKinds /\ transport = "grpc" THEN {"service_name"} ELSE {})
          \cup (IF type = "vless" /\ security = "reality" THEN RealityFields ELSE {})

\* What the input of field f of a tab of kind `type` can hand to onChange.
FieldInputs(type, f) ==
  CASE f = "port" -> PortInputs
    [] f = "cipher" -> CipherOptions
    [] f = "transport" -> TransportOptions(type)
    [] f = "security" -> SecurityOptions(type)
    [] OTHER -> TextInputs

\* field.onChange(v) / form.setValue(name, v) on protocols.i.f
SetField(i, f, v) ==
  /\ open
  /\ nEdits < MaxEdits
  /\ f \in VisibleFields(formValues, protocolsEnabled, i)
  /\ v \in FieldInputs(PROTOCOLS[i], f)
  /\ formValues' = [formValues EXCEPT !.protocols[i] = Spread(@, [x \in {f} |-> v])]
  /\ nEdits' = nEdits + 1
  /\ lastOp' = Op("edit")
  /\ UNCHANGED <<initialValues, loading, open, protocolsEnabled, formDefaults, pending,
                 everCalled, nToggles>>

\* field.onChange(v) on name, address, country, city (lines 177-234) and ratio (235-253)
SetTop(f, v) ==
  /\ open
  /\ nEdits < MaxEdits
  /\ IF f = "ratio" THEN v \in RatioInputs ELSE f \in TopTextFields /\ v \in TextInputs
  /\ formValues' = [formValues EXCEPT ![f] = v]
  /\ nEdits' = nEdits + 1
  /\ lastOp' = Op("edit")
  /\ UNCHANGED <<initialValues, loading, open, protocolsEnabled, formDefaults, pending,
                 everCalled, nToggles>>

\* handleSubmit(values) up to the await (lines 110-139)
HandleSubmit(values) ==
  IF Filtered(values, protocolsEnabled) = <<>>
  THEN /\ lastOp' = [Op("confirm") EXCEPT !.valid = TRUE, !.toasts = 1]
       /\ UNCHANGED <<pending, everCalled>>
  ELSE /\ pending < MaxInFlight
       /\ everCalled' = TRUE
       /\ pending' = pending + 1
       /\ lastOp' = [Op("confirm") EXCEPT !.valid = TRUE, !.called = TRUE,
                                          !.result = SubmitResult(values, protocolsEnabled)]

\* An invalid callback that hands the values to onSubmit all the same.
OnInvalid_StillSubmits ==
  /\ pending < MaxInFlight
  /\ everCalled' = TRUE
  /\ pending' = pending + 1
  /\ lastOp' = [Op("confirm") EXCEPT !.called = TRUE,
                                     !.result = SubmitResult(formValues, protocolsEnabled)]

\* The invalid callback of form.handleSubmit (lines 909-914)
OnInvalid ==
  /\ lastOp' = [Op("confirm") EXCEPT !.toasts = 1]
  /\ UNCHANGED <<pending, everCalled>>

\* A confirm that resets the form when handleSubmit refuses.
Confirm_ResetOnRefusal ==
  /\ open
  /\ ~loading
  /\ \E valid \in BOOLEAN : IF valid THEN HandleSubmit(formValues) ELSE OnInvalid
  /\ formValues' = IF lastOp'.valid /\ ~lastOp'.called THEN formDefaults ELSE formValues
  /\ UNCHANGED <<initialValues, loading, open, protocolsEnabled, formDefaults,
                 nEdits, nToggles>>

\* The confirm button (lines 907-915): form.handleSubmit runs the resolver on the
\* current values and calls handleSubmit with them, or the invalid callback.
\* formSchema is not part of the sources at hand: either verdict is possible
\* on any values, and the values reach handleSubmit as they are in the form.
Confirm ==
  /\ open
  /\ ~loading
  /\ \E valid \in BOOLEAN : IF valid THEN HandleSubmit(formValues) ELSE OnInvalid
  /\ UNCHANGED <<initialValues, loading, open, protocolsEnabled, formValues, formDefaults,
                 nEdits, nToggles>>

\* A handler that resets the form whatever onSubmit resolved with.
ValuesAfterResolve_AlwaysReset(ok) == formDefaults

\* The form values and the open flag after onSubmit resolved (lines 140-143)
ValuesAfterResolve(ok) == IF ok THEN formDefaults ELSE formValues

OpenAfterResolve(ok) == IF ok THEN FALSE ELSE open

\* The enabled list after onSubmit resolved: handleSubmit leaves it alone.
EnabledAfterResolve(ok) == protocolsEnabled

\* await onSubmit(result) resolves (lines 139-143)
Resolve(ok) ==
  /\ pending > 0
  /\ pending' = pending - 1
  /\ formValues' = ValuesAfterResolve(ok)
  /\ open' = OpenAfterResolve(ok)
  /\ protocolsEnabled' = EnabledAfterResolve(ok)
  /\ lastOp' = [Op("resolve") EXCEPT !.ok = ok]
  /\ UNCHANGED <<initialValues, loading, formDefaults, everCalled, nEdits, nToggles>>

Next ==
  \/ NewInitialValues
  \/ ParentSetsLoading
  \/ ClickTrigger
  \/ Cancel
  \/ Dismiss
  \/ \E type \in Range(PROTOCOLS) : Toggle(type)
  \/ \E type \in Range(PROTOCOLS) : ToggleSameRender(type)
  \/ \E i \in 1..Len(PROTOCOLS) : \E f \in {"port", "cipher", "server_key", "transport",
        "security", "host", "path", "service_name"} \cup RealityFields :
        \E v \in FieldInputs(PROTOCOLS[i], f) : SetField(i, f, v)
  \/ \E f \in TopTextFields : \E v \in TextInputs : SetTop(f, v)
  \/ \E v \in RatioInputs : SetTop("ratio", v)
  \/ Confirm
  \/ \E ok \in BOOLEAN : Resolve(ok)

Spec == Init /\ [][Next]_vars

\* -------------------------------------------------------------- validation
\* formSchema is imported from ./form-schema and not part of the sources at
\* hand; these are the written rules of the configuration validator. An error
\* is [slot, field, reason], slot 0 for the top-level fields. The dependent
\* fields are looked at in the written order: kind, enabled, selector, field.
Err(slot, field, reason) == [slot |-> slot, field |-> field, reason |-> reason]

\* A text field of obj is blank: absent or empty.
Blank(obj, f) == f \notin DOMAIN obj \/ obj[f] = ""

\* A port the validator would accept whatever it reads.
PortIsLegal_RangeOnly(x) ==
  LET n == ToNumber(x) IN n.t = "number" /\ n.v > 0 /\ n.v <= MaxPort * 10

\* port: integer in [1, 65535]
PortIsLegal(x) ==
  LET n == ToNumber(x) IN
  n.t = "number" /\ n.v % 10 = 0 /\ n.v >= 10 /\ n.v <= MaxPort * 10

\* A reality rule that does not look at the security selector.
RealityRequired_WhateverSecurity(slot) == TRUE

\* vless reality fields: required only if security == reality
RealityRequired(slot) == "security" \in DOMAIN slot /\ slot.security = "reality"

\* A server_key rule that knows one cipher of the family only.
ServerKeyRequired_OneCipher(slot) ==
  "cipher" \in DOMAIN slot /\ slot.cipher = "2022-blake3-aes-128-gcm"

\* shadowsocks.server_key: required only if the cipher is of the 2022-blake3 family
ServerKeyRequired(slot) == "cipher" \in DOMAIN slot /\ slot.cipher \in Blake3Ciphers

\* validate(node): the errors of the top-level fields and of the enabled slots
Validate(values, enabled) ==
  LET ratio == ToNumber(values.ratio)
      slots == {i \in 1..Len(values.protocols) :
                  i <= Len(PROTOCOLS) /\ PROTOCOLS[i] \in Range(enabled)}
  IN {Err(0, f, "required") : f \in {g \in {"name", "address"} : values[g] = ""}}
     \cup (IF ratio.t = "number" /\ ratio.v >= 0 THEN {} ELSE {Err(0, "ratio", "invalid")})
     \cup {Err(i, "port", "invalid") :
             i \in {j \in slots : ~PortIsLegal(Get(values.protocols[j], "port"))}}
     \cup {Err(i, "server_key", "required") :
             i \in {j \in slots : /\ PROTOCOLS[j] = "shadowsocks"
                                  /\ ServerKeyRequired(values.protocols[j])
                                  /\ Blank(values.protocols[j], "server_key")}}
     \cup UNION {{Err(i, f, "required") :
                    f \in {g \in RealityFields : Blank(values.protocols[i], g)}} :
                 i \in {j \in slots : /\ PROTOCOLS[j] = "vless"
                                      /\ RealityRequired(values.protocols[j])}}

\* ================================================================== claims
\* What a fresh session starts from: the loaded node in edit mode, the
\* defaults in create mode.
FreshValues(iv) == IF HasInitial(iv) THEN LoadedValues(iv) ELSE CreateValues

FreshEnabled(iv) == IF HasInitial(iv) THEN EnabledOnLoad(iv) ELSE <<>>

\* The port parses to a finite integer in [1, 65535].
ValidPortValue(x) ==
  LET n == ToNumber(x) IN n.t = "number" /\ n.v % 10 = 0 /\ n.v >= 10 /\ n.v <= MaxPort * 10

\* handleSubmit has just handed lastOp.result to onSubmit; the form values and
\* the enabled list are still the ones it read.
Submitted == lastOp.op = "confirm" /\ lastOp.called

SubmittedTypes == {lastOp.result.protocols[k].type : k \in 1..Len(lastOp.result.protocols)}

SlotEnabled(i) == PROTOCOLS[i] \in Range(protocolsEnabled)

SlotPortValid(i) == ValidPortValue(Get(formValues.protocols[i], "port"))

\* C1: in every submission handed to onSubmit, a slot appears among
\* submission.protocols if and only if its kind is enabled and its port parses
\* to a finite integer in [1, 65535].
C1_KeptIffEnabledAndValidPort ==
  Submitted =>
    \A i \in 1..Len(formValues.protocols) :
      (formValues.protocols[i].type \in SubmittedTypes) <=> (SlotEnabled(i) /\ SlotPortValid(i))

\* C2: when no enabled protocol has a valid port (the enabled list may be
\* empty), handleSubmit refuses: onSubmit is not called, no submission exists
\* and exactly one error message is raised.
C2_RefusesWithoutValidEnabledPort ==
  (/\ lastOp.op = "confirm"
   /\ lastOp.valid
   /\ \A i \in 1..Len(formValues.protocols) : SlotEnabled(i) => ~SlotPortValid(i))
  => (~lastOp.called /\ lastOp.result = NoResult /\ lastOp.toasts = 1)

\* C3: at most one onSubmit call is outstanding at any time, whatever the
\* parent does with the loading flag.
C3_AtMostOneCommitInFlight == pending <= 1

\* C4: when onSubmit has resolved with success the sheet is closed, the form
\* values are reset and the enabled list carries none of the session's toggles.
C4_SuccessClearsEditState ==
  (lastOp.op = "resolve" /\ lastOp.ok) =>
    /\ ~open
    /\ formValues = FreshValues(initialValues)
    /\ protocolsEnabled = FreshEnabled(initialValues)

\* C5: a commit that fails clears nothing: neither the step that starts the
\* commit nor the step in which onSubmit resolves with false changes the open
\* flag, the form values or the enabled list, so with no operator action in
\* between they are what they were when the commit was started.
C5_FailureClearsNothing ==
  [][ (pending' = pending + 1 \/ (pending' = pending - 1 /\ ~lastOp'.ok))
      => (open' = open /\ formValues' = formValues /\ protocolsEnabled' = protocolsEnabled) ]_vars

\* A failed commit has just resolved on an open sheet that holds edits and toggles.
C5_Witness ==
  /\ lastOp.op = "resolve"
  /\ ~lastOp.ok
  /\ open
  /\ formValues # FreshValues(initialValues)
  /\ protocolsEnabled # FreshEnabled(initialValues)

\* C6: when the sheet is reopened and onSubmit was never called, the form
\* values and the enabled list are those of a fresh session, whatever was
\* edited or toggled before the sheet was closed.
C6_AbandonDiscardsEdits ==
  (lastOp.op = "trigger" /\ ~everCalled) =>
    /\ formValues = FreshValues(initialValues)
    /\ protocolsEnabled = FreshEnabled(initialValues)

\* C7: every submission handed to onSubmit lists its protocols in catalog order.
C7_SubmissionInCatalogOrder ==
  Submitted =>
    \A j, k \in 1..Len(lastOp.result.protocols) :
      j < k => CatalogIndex(lastOp.result.protocols[j].type)
                 < CatalogIndex(lastOp.result.protocols[k].type)

\* A submission of two or more protocols made while the enabled list, in the
\* order the switches were turned on, is out of catalog order.
C7_Witness ==
  /\ Submitted
  /\ Len(lastOp.result.protocols) >= 2
  /\ \E j, k \in 1..Len(protocolsEnabled) :
       j < k /\ CatalogIndex(protocolsEnabled[j]) > CatalogIndex(protocolsEnabled[k])

\* C8: a toggle changes the enabled list only: the form values of every slot,
\* the toggled one included, are the same after it as before.
C8_ToggleLeavesValues ==
  [][ nToggles' = nToggles + 1
      => (formValues' = formValues /\ formDefaults' = formDefaults /\ open' = open) ]_vars

\* A protocol whose slot holds edited values has been switched off and on again.
C8_Witness ==
  /\ lastOp.op = "toggle"
  /\ nToggles = 2
  /\ lastOp.type \in Range(protocolsEnabled)
  /\ formValues.protocols[CatalogIndex(lastOp.type)]
       # FreshValues(initialValues).protocols[CatalogIndex(lastOp.type)]

\* C9: a submitted protocol whose transport is tcp carries no host, path or
\* service_name.
C9_TcpCarriesNoTransportFields ==
  Submitted =>
    \A k \in 1..Len(lastOp.result.protocols) :
      LET p == lastOp.result.protocols[k] IN
      ("transport" \in DOMAIN p /\ p.transport = "tcp")
        => DOMAIN p \cap {"host", "path", "service_name"} = {}

\* C10: a submitted protocol whose security is not reality carries none of the
\* five reality fields.
C10_NonRealityCarriesNoRealityFields ==
  Submitted =>
    \A k \in 1..Len(lastOp.result.protocols) :
      LET p == lastOp.result.protocols[k] IN
      ~("security" \in DOMAIN p /\ p.security = "reality")
        => DOMAIN p \cap RealityFields = {}

\* The entered ratio is a decimal >= 0: a number, or a string that is not
\* blank and reads as one.
RatioEntered(x) ==
  LET n == ToNumber(x) IN
  /\ x.t \in {"number", "string"}
  /\ (x.t = "string" => TrimRight(TrimLeft(x.s)) # <<>>)
  /\ n.t = "number"
  /\ n.v >= 0

\* C11: the ratio of every submission is a finite number >= 0; it is the
\* entered ratio as a number when that is a decimal >= 0 (0 included) and 1
\* when the entered ratio is absent or invalid.
C11_RatioIsEnteredOrOne ==
  Submitted =>
    LET entered == formValues.ratio
        r == lastOp.result.ratio
    IN /\ r.t = "number"
       /\ r.v >= 0
       /\ r = IF RatioEntered(entered) THEN ToNumber(entered) ELSE JInt(1)

\* The protocols of a loaded node whose port is an integer in [1, 65535].
LoadedWithValidPort(iv) ==
  IF "protocols" \in DOMAIN iv
  THEN {p \in Range(iv.protocols) : ValidPortValue(Get(p, "port"))}
  ELSE {}

\* p and q hold the same fields with the same values, the port compared as a number.
SameButPort(p, q) ==
  /\ DOMAIN p = DOMAIN q
  /\ \A f \in DOMAIN q \ {"port"} : p[f] = q[f]
  /\ ToNumber(Get(p, "port")) = ToNumber(Get(q, "port"))

C13_LoadedSlotsFullyPopulated ==
  (lastOp.op = "none" /\ HasInitial(initialValues)) =>
    /\ Len(formValues.protocols) = Len(PROTOCOLS)
    /\ \A i \in 1..Len(PROTOCOLS) :
         LET slot == formValues.protocols[i]
             def == GetProtocolDefaultConfig(PROTOCOLS[i])
             loaded == FindProtocol(initialValues, PROTOCOLS[i])
         IN /\ DOMAIN def \subseteq DOMAIN slot
            /\ \A f \in DOMAIN def :
                 (loaded = <<>> \/ f \notin DOMAIN Head(loaded)) => slot[f] = def[f]

\* C14: when the trigger has opened the sheet in create mode, the form holds
\* one default config per kind in catalog order, empty name, address, country
\* and city, ratio 1, and no protocol is enabled.
C14_CreateOpensOnDefaults ==
  (lastOp.op = "trigger" /\ ~HasInitial(initialValues)) =>
    /\ open
    /\ formValues.name = ""
    /\ formValues.address = ""
    /\ formValues.country = ""
    /\ formValues.city = ""
    /\ formValues.ratio = JInt(1)
    /\ Len(formValues.protocols) = Len(PROTOCOLS)
    /\ \A k \in 1..Len(PROTOCOLS) :
         formValues.protocols[k] = GetProtocolDefaultConfig(PROTOCOLS[k])
    /\ protocolsEnabled = <<>>

\* The sheet was reopened in create mode after a session with edits, toggles
\* and a commit.
C14_Witness ==
  /\ lastOp.op = "trigger"
  /\ ~HasInitial(initialValues)
  /\ nEdits > 0
  /\ nToggles > 0
  /\ everCalled

\* C15: a confirm whose validation fails hands nothing to onSubmit and leaves
\* the sheet open: no call is started, no submission exists.
C15_InvalidIsNotPersisted ==
  [][ (lastOp'.op = "confirm" /\ ~lastOp'.valid)
      => (/\ pending' = pending
          /\ everCalled' = everCalled
          /\ ~lastOp'.called
          /\ lastOp'.result = NoResult
          /\ open') ]_vars

\* Validation has just failed on a form whose enabled protocol carries a port
\* handleSubmit would have kept.
C15_Witness ==
  /\ lastOp.op = "confirm"
  /\ ~lastOp.valid
  /\ lastOp.toasts = 1
  /\ Filtered(formValues, protocolsEnabled) # <<>>

\* C16: a commit attempt that handleSubmit refuses changes neither the form
\* values (slots and top-level fields), nor the enabled list, nor the open flag.
C16_RefusalKeepsEdits ==
  [][ (lastOp'.op = "confirm" /\ lastOp'.valid /\ ~lastOp'.called)
      => (/\ formValues' = formValues
          /\ formDefaults' = formDefaults
          /\ protocolsEnabled' = protocolsEnabled
          /\ open' = open) ]_vars

\* handleSubmit has just refused a form that holds an edit and a toggle.
C16_Witness ==
  /\ lastOp.op = "confirm"
  /\ lastOp.valid
  /\ ~lastOp.called
  /\ lastOp.toasts = 1
  /\ open
  /\ formValues # formDefaults
  /\ protocolsEnabled # FreshEnabled(initialValues)

\* C17: each submitted protocol holds the fields of its edited slot and no
\* others, the port as the number the entered port reads as, every other
\* field with the slot's value.
C17_EntryIsSlotWithNumericPort ==
  Submitted =>
    \A k \in 1..Len(lastOp.result.protocols) :
      LET p == lastOp.result.protocols[k]
          slot == formValues.protocols[CatalogIndex(p.type)]
      IN /\ DOMAIN p = DOMAIN slot \cup {"port"}
         /\ \A f \in DOMAIN slot \ {"port"} : p[f] = slot[f]
         /\ p.port = ToNumber(Get(slot, "port"))
         /\ p.port.t = "number"

\* A submitted protocol whose port was entered as text carries further fields.
C17_Witness ==
  /\ Submitted
  /\ \E k \in 1..Len(lastOp.result.protocols) :
       LET p == lastOp.result.protocols[k]
           slot == formValues.protocols[CatalogIndex(p.type)]
       IN /\ slot.port.t = "string"
          /\ Cardinality(DOMAIN p) > 2

\* The errors the validator reports on the form as it stands.
Errors == Validate(formValues, protocolsEnabled)

\* The form as it stands with x in the port of slot i.
WithPort(i, x) == [formValues EXCEPT !.protocols[i] = Spread(@, [port |-> x])]

\* C18: for an enabled protocol the validator reports an error on its port if
\* and only if the port is not an integer in [1, 65535]; the error sits on that
\* port alone: the other errors are those of the same form with a legal port
\* in the slot.
C18_PortErrorIffNotInRange ==
  LET errs == Validate(formValues, protocolsEnabled) IN
  \A i \in 1..Len(formValues.protocols) :
    SlotEnabled(i) =>
      /\ (Err(i, "port", "invalid") \in errs) <=> ~SlotPortValid(i)
      /\ errs \ {Err(i, "port", "invalid")}
           = Validate(WithPort(i, JInt(443)), protocolsEnabled)

\* Two protocols are enabled, one with a port in range that passes, one with a
\* fractional port that is flagged.
C18_Witness ==
  \E i, j \in 1..Len(formValues.protocols) :
    /\ SlotEnabled(i)
    /\ SlotEnabled(j)
    /\ ToNumber(Get(formValues.protocols[i], "port")).t = "number"
    /\ ToNumber(Get(formValues.protocols[i], "port")).v % 10 # 0
    /\ Err(i, "port", "invalid") \in Errors
    /\ SlotPortValid(j)
    /\ Err(j, "port", "invalid") \notin Errors

\* C19: on an enabled vless, a reality field reports a required error if and
\* only if security is reality and that field is blank: none when all five are
\* filled, exactly the blank one when one is blank, none under another
\* security even when blank.
C19_RealityRequiredOnlyUnderReality ==
  \A i \in 1..Len(formValues.protocols) :
    (SlotEnabled(i) /\ PROTOCOLS[i] = "vless") =>
      LET slot == formValues.protocols[i] IN
      \A f \in RealityFields :
        (Err(i, f, "required") \in Errors)
          <=> ("security" \in DOMAIN slot /\ slot.security = "reality" /\ Blank(slot, f))

\* An enabled vless under reality has exactly one reality field blank and
\* exactly that field flagged.
C19_Witness ==
  \E i \in 1..Len(formValues.protocols) :
    /\ SlotEnabled(i)
    /\ PROTOCOLS[i] = "vless"
    /\ "security" \in DOMAIN formValues.protocols[i]
    /\ formValues.protocols[i].security = "reality"
    /\ Cardinality({f \in RealityFields : Blank(formValues.protocols[i], f)}) = 1
    /\ {e \in Errors : e.slot = i /\ e.field \in RealityFields}
         = {Err(i, f, "required") : f \in {g \in RealityFields : Blank(formValues.protocols[i], g)}}

\* C20: on an enabled shadowsocks, server_key reports a required error if and
\* only if it is blank and the cipher is one of the three 2022-blake3 ciphers;
\* under any other cipher a blank or stale server_key reports nothing.
C20_ServerKeyRequiredOnlyForBlake3 ==
  \A i \in 1..Len(formValues.protocols) :
    (SlotEnabled(i) /\ PROTOCOLS[i] = "shadowsocks") =>
      LET slot == formValues.protocols[i] IN
      (Err(i, "server_key", "required") \in Errors)
        <=> (/\ "cipher" \in DOMAIN slot
             /\ slot.cipher \in {"2022-blake3-aes-128-gcm", "2022-blake3-aes-256-gcm",
                                 "2022-blake3-chacha20-poly1305"}
             /\ Blank(slot, "server_key"))

\* An enabled shadowsocks under a 2022-blake3 cipher other than the first has a
\* blank server_key, which is flagged.
C20_Witness ==
  \E i \in 1..Len(formValues.protocols) :
    /\ SlotEnabled(i)
    /\ PROTOCOLS[i] = "shadowsocks"
    /\ formValues.protocols[i].cipher
         \in {"2022-blake3-aes-256-gcm", "2022-blake3-chacha20-poly1305"}
    /\ Blank(formValues.protocols[i], "server_key")
    /\ Err(i, "server_key", "required") \in Errors

\* The port passes the test of the reducer's filter: finite, > 0, <= 65535.
PassesPortCheck(x) ==
  LET n == ToNumber(x) IN n.t = "number" /\ n.v > 0 /\ n.v <= MaxPort * 10

\* C22: while the sheet is open the form holds seven slots and slot i carries
\* the type PROTOCOLS[i]; so in every submission each entry's type is enabled
\* and every enabled slot with a valid port is submitted.
C22_SlotsAlignedWithCatalog ==
  /\ open =>
       /\ Len(formValues.protocols) = Len(PROTOCOLS)
       /\ \A i \in 1..Len(PROTOCOLS) : formValues.protocols[i].type = PROTOCOLS[i]
  /\ Submitted =>
       /\ SubmittedTypes \subseteq Range(protocolsEnabled)
       /\ \A i \in 1..Len(formValues.protocols) :
            (SlotEnabled(i) /\ SlotPortValid(i)) => PROTOCOLS[i] \in SubmittedTypes

\* A node that lists its protocols out of catalog order was loaded and two of
\* its protocols were submitted.
C22_Witness ==
  /\ Submitted
  /\ HasInitial(initialValues)
  /\ "protocols" \in DOMAIN initialValues
  /\ \E k \in 1..Len(initialValues.protocols) : initialValues.protocols[k].type # PROTOCOLS[k]
  /\ Len(lastOp.result.protocols) >= 2

\* C23: an onSubmit call that is outstanding when the trigger has just opened
\* a new session was started by an earlier one; its resolution leaves the new
\* session's form values alone and does not close its sheet.
C23_ResolutionStaysInItsSession ==
  [][ (lastOp.op = "trigger" /\ pending > 0 /\ pending' = pending - 1)
      => (formValues' = formValues /\ open' = open) ]_vars

\* C24: every protocol enabled right after a node is loaded carries a port that
\* passes the reducer's test.
C24_EnabledOnLoadPassesPortCheck ==
  (lastOp.op = "none" /\ HasInitial(initialValues)) =>
    \A i \in 1..Len(formValues.protocols) :
      SlotEnabled(i) => PassesPortCheck(Get(formValues.protocols[i], "port"))

\* C25: while the sheet is open, a new initialValues from the parent leaves the
\* form values and the enabled list as they are.
C25_OpenSessionKeepsEditsOnNewProps ==
  [][ (open /\ (initialValues' # initialValues \/ (lastOp'.op = "none" /\ lastOp.op # "none")))
      => (formValues' = formValues /\ protocolsEnabled' = protocolsEnabled) ]_vars

\* C26: the enabled list holds catalog kinds only and none of them twice.
C26_EnabledIsASetOfKinds ==
  /\ \A k \in 1..Len(protocolsEnabled) : protocolsEnabled[k] \in Range(PROTOCOLS)
  /\ \A j, k \in 1..Len(protocolsEnabled) : j # k => protocolsEnabled[j] # protocolsEnabled[k]

\* A switch has just been turned on by two calls from one render, next to the
\* protocols a load had enabled.
C26_Witness ==
  /\ lastOp.op = "toggleTwice"
  /\ lastOp.type \in Range(protocolsEnabled)
  /\ HasInitial(initialValues)
  /\ Len(protocolsEnabled) >= 3
====
